---- MODULE Spec2Model ----
(***************************************************************************)
(* Device-telemetry ingestion and alerting pipeline of the medicare        *)
(* backend: controllers/iotController.js (postIotData, getLatestData,      *)
(* getMotherHistory, getAlerts) and utils/ecgUtils.js                      *)
(* (calculateHeartRate), over the three Firebase paths iot_data/,          *)
(* alerts/ and buzzer_control/.                                            *)
(*                                                                         *)
(* Representation of JavaScript values:                                    *)
(*   - a string is a TLA+ string; Undefined stands for a missing field;    *)
(*   - a number is a record [k, v]: k = "fin" with v the value, or         *)
(*     k = "nan" / "pinf" / "ninf"; temperatures are in tenths of a        *)
(*     degree Celsius (37.5 is 375);                                       *)
(*   - a value of another type has k = "undef" or k = "str";               *)
(*   - a store key is the decimal string of the timestamp, written as the  *)
(*     sequence of its digits, compared the way Array.prototype.sort       *)
(*     compares strings (by code unit).                                    *)
(***************************************************************************)
EXTENDS Integers, Sequences, FiniteSets

\* ------------------------------------------------------------------ bounds
\* Math.random() is drawn from the grid {0/RandomGrid, ..., (RandomGrid-1)/RandomGrid}.
RandomGrid == 4
\* Date.now() returns a value of StartClock..MaxClock.
StartClock == 9
MaxClock == 10
\* Longest ecg array a request carries.
MaxEcgLen == 1
\* The finer grid of Math.random() under which every heart rate of the stub occurs.
FineGrid == 30

\* --------------------------------------------------------- program constants
TempLimit == 375
baseHR == 90
varianceRange == 15

NowValues == StartClock..MaxClock
Procs == {"p1", "p2"}
DeviceIds == {"D1", "D2"}
MotherIds == {"M1", "M2"}
Undefined == "undefined"

\* ------------------------------------------------------------ JS values
Num(n) == [k |-> "fin", v |-> n]
NaN == [k |-> "nan", v |-> 0]
PosInf == [k |-> "pinf", v |-> 0]
NegInf == [k |-> "ninf", v |-> 0]
Undef == [k |-> "undef", v |-> 0]
NotANumber == [k |-> "str", v |-> 0]
Arr(s) == [k |-> "array", v |-> s]
NotAnArray == [k |-> "undef", v |-> <<>>]

\* !x for a string-valued field: undefined and "" are falsy
Truthy(s) == s # Undefined /\ s # ""
\* typeof x === "number"
TypeofNumber(x) == x.k \in {"fin", "nan", "pinf", "ninf"}
\* Array.isArray(x)
IsArray(x) == x.k = "array"
\* !x for a number-or-undefined field: undefined, 0 and NaN are falsy
FalsyNum(x) == x.k \in {"undef", "nan"} \/ (x.k = "fin" /\ x.v = 0)
\* x > c for a JS number x and a finite c
GreaterThan(x, c) == x.k = "pinf" \/ (x.k = "fin" /\ x.v > c)

\* ------------------------------------------------------------ key strings
\* `${timestamp}` for a non-negative integer
RECURSIVE NumberToString(_)
NumberToString(n) == IF n < 10 THEN <<n>> ELSE Append(NumberToString(n \div 10), n % 10)

\* Number(key) for a string of decimal digits
RECURSIVE ToNumber(_)
ToNumber(s) == IF s = <<>> THEN 0 ELSE 10 * ToNumber(SubSeq(s, 1, Len(s) - 1)) + s[Len(s)]

\* a < b as Array.prototype.sort() without a comparator orders two strings
RECURSIVE StrLess(_, _)
StrLess(a, b) ==
  IF a = <<>> THEN b # <<>>
  ELSE IF b = <<>> THEN FALSE
  ELSE IF Head(a) # Head(b) THEN Head(a) < Head(b)
  ELSE StrLess(Tail(a), Tail(b))

\* Object.keys(data).sort()
RECURSIVE SortKeys(_)
SortKeys(S) ==
  IF S = {} THEN <<>>
  ELSE LET m == CHOOSE x \in S : \A y \in S \ {x} : StrLess(x, y)
       IN <<m>> \o SortKeys(S \ {m})

Reverse(s) == [i \in 1..Len(s) |-> s[Len(s) + 1 - i]]

\* ------------------------------------------------------------ the stores
EmptyNode == [x \in {} |-> 0]
\* set() called on the parent path: the node is replaced by the one entry
Put_replaceNode(node, key, val) == [x \in {key} |-> val]

Put(node, key, val) == [x \in (DOMAIN node) \cup {key} |-> IF x = key THEN val ELSE node[x]]

\* ------------------------------------------------------------ postIotData
\* the validation of line 11 without its Array.isArray test
ValidInput_noArrayTest(b) ==
  /\ Truthy(b.motherId)
  /\ Truthy(b.deviceId)
  /\ TypeofNumber(b.temperature)

ValidInput(b) ==
  /\ Truthy(b.motherId)
  /\ Truthy(b.deviceId)
  /\ TypeofNumber(b.temperature)
  /\ IsArray(b.ecg)

DefaultTimestamp(ts, now) == IF FalsyNum(ts) THEN now ELSE ts.v

\* the comparison of line 18 written as >=
tempTooHigh_orEqual(temperature) ==
  GreaterThan(temperature, TempLimit) \/ temperature = Num(TempLimit)

tempTooHigh(temperature) == GreaterThan(temperature, TempLimit)

\* Math.random() is a fraction random[1] / random[2] of [0, 1)
RandomDraws(grid) == {<<n, grid>> : n \in 0..(grid - 1)}

\* the stub as its comment describes it: "between 85-105 BPM"
calculateHeartRate_asCommented(ecgArray, random) ==
  85 + ((random[1] * 21) \div random[2])

calculateHeartRate(ecgArray, random) ==
  baseHR + ((random[1] * varianceRange) \div random[2])

\* the upper limit of line 20 set to 90
ecgAbnormal_above90(heartRate) == heartRate < 60 \/ heartRate > 90

ecgAbnormal(heartRate) == heartRate < 60 \/ heartRate > 100

\* the alert decided on the temperature alone
alertOf_tempOnly(temperature, heartRate) == tempTooHigh(temperature)

alertOf(temperature, heartRate) == tempTooHigh(temperature) /\ ecgAbnormal(heartRate)

\* the records the three writes of postIotData store
SampleRecord(b, heartRate, alert) ==
  [deviceId |-> b.deviceId, temperature |-> b.temperature, heartRate |-> heartRate,
   ecg |-> b.ecg.v, alert |-> alert]

\* the alert record with the actuator's reason of the normal case
AlertRecord_wrongReason(b, heartRate, timestamp) ==
  [deviceId |-> b.deviceId, temperature |-> b.temperature, heartRate |-> heartRate,
   ecg |-> b.ecg.v, timestamp |-> timestamp, reason |-> "normal"]

AlertRecord(b, heartRate, timestamp) ==
  [deviceId |-> b.deviceId, temperature |-> b.temperature, heartRate |-> heartRate,
   ecg |-> b.ecg.v, timestamp |-> timestamp, reason |-> "ecg_and_temp_alert"]

\* the actuator state with the two branches of each conditional exchanged
BuzzerState_swapped(alert, timestamp) ==
  [buzzer |-> IF alert THEN "off" ELSE "on",
   reason |-> IF alert THEN "normal" ELSE "ecg_and_temp_alert",
   timestamp |-> timestamp]

\* the actuator state with the reason left at its normal value
BuzzerState_reasonNotSet(alert, timestamp) ==
  [buzzer |-> IF alert THEN "on" ELSE "off", reason |-> "normal", timestamp |-> timestamp]

BuzzerState(alert, timestamp) ==
  [buzzer |-> IF alert THEN "on" ELSE "off",
   reason |-> IF alert THEN "ecg_and_temp_alert" ELSE "normal",
   timestamp |-> timestamp]

\* the write that follows a completed sample write, and a completed alert write
\* the alert write left out
AfterSample_noAlertWrite(alert) == "buzzer"

AfterSample(alert) == IF alert THEN "alert" ELSE "buzzer"
\* the actuator write left out after the alert write
AfterAlert_skipsActuator == "respond"

AfterAlert == "buzzer"

\* ------------------------------------------------------------ request bodies
EcgArrays == UNION {[1..n -> {1}] : n \in 0..MaxEcgLen}

Body(d, m, t, e, ts) ==
  [deviceId |-> d, motherId |-> m, temperature |-> t, ecg |-> e, timestamp |-> ts]

NoBody == Body(Undefined, Undefined, Undef, NotAnArray, Undef)

\* every combination of present, empty, missing and ill-typed fields
Bodies ==
  {Body(d, m, t, e, ts) :
     d \in {"D1", "", Undefined}, m \in {"M1", "", Undefined},
     t \in {Num(370), Num(375), Num(376), Num(380), NaN, PosInf, NegInf, NotANumber},
     e \in {Arr(s) : s \in EcgArrays} \cup {NotAnArray},
     ts \in {Undef, Num(0), Num(10)}}

\* the bodies of the requests that race
RaceBodies ==
  {Body(d, "M1", Num(380), Arr(<<1>>), ts) : d \in DeviceIds, ts \in {Num(9), Num(10)}}

\* ------------------------------------------------------------ state
VARIABLES
  pc,              \* per request: idle, sample, alert, buzzer, respond, done
  body,            \* per request: req.body
  timestamp,       \* per request: the local timestamp after line 16
  heartRate,       \* per request: the local heartRate
  alert,           \* per request: the local alert
  iot_data,        \* iot_data/{motherId}/{timestamp}
  alerts,          \* alerts/{motherId}/{timestamp}
  buzzer_control,  \* buzzer_control/{deviceId}
  res,             \* the response sent by the last step, if it sent one
  httpStatus,      \* per request: the HTTP status it was answered with, 0 before
  riskPc,          \* handleRiskPrediction: idle, send, wait, returned, thrown, done
  riskBody,        \* handleRiskPrediction: req.body
  attempts,        \* predictRisk: the local attempts
  sent,            \* predictRisk: how each call of chat.sendMessage settled, in order
  riskOut,         \* predictRisk: what it returned or threw
  riskRes,         \* handleRiskPrediction: the response, once sent
  regPc,           \* register: idle, findHospital, findUser, createUser, createPatient,
                   \*           log, done
  regCtl,          \* register: the controller that runs it
  regBody,         \* register: req.body
  User,            \* the User collection
  Patient,         \* the Patient collection
  regRes           \* register: the response, once sent

riskVars == <<riskPc, riskBody, attempts, sent, riskOut, riskRes>>
regVars == <<regPc, regCtl, regBody, User, Patient, regRes>>
iotVars == <<pc, body, timestamp, heartRate, alert, iot_data, alerts, buzzer_control, res, httpStatus>>
vars == <<iotVars, riskVars, regVars>>
locals == <<body, timestamp, heartRate, alert>>
stores == <<iot_data, alerts, buzzer_control>>

NoRes == [op |-> "none"]

\* ------------------------------------------------------------ predictRisk
\* how a call of chat.sendMessage settles: it resolves with a response whose
\* text() is the given text, or it rejects with an error of the given status
\* (Undef for an error that carries none)
Resolved(text) == [k |-> "ok", text |-> text, status |-> Undef]
Rejected(status) == [k |-> "err", text |-> <<>>, status |-> status]

\* response texts, as sequences of characters
Texts == {<<"H", "i", "g", "h">>, <<" ", "L", "o", "w", " ">>, <<"l", "o", "w">>}
Statuses == {Num(503), Num(500), Num(429), Undef}
Settlements == {Resolved(t) : t \in Texts} \cup {Rejected(st) : st \in Statuses}

\* String.prototype.toLowerCase and trim, on the characters that occur
LowerChar(c) == CASE c = "H" -> "h" [] c = "L" -> "l" [] OTHER -> c
toLowerCase(t) == [i \in 1..Len(t) |-> LowerChar(t[i])]
RECURSIVE trimStart(_)
trimStart(t) == IF t # <<>> /\ Head(t) = " " THEN trimStart(Tail(t)) ELSE t
RECURSIVE trimEnd(_)
trimEnd(t) ==
  IF t # <<>> /\ t[Len(t)] = " " THEN trimEnd(SubSeq(t, 1, Len(t) - 1)) ELSE t
trim(t) == trimEnd(trimStart(t))

\* line 12
InitialAttempts == 3

\* line 13, while (attempts--): the test reads attempts, then decrements it; when
\* the test fails the function falls off its end and returns undefined
WhileAttempts(a) ==
  [enter |-> a # 0, attempts |-> a - 1]

\* the test of line 18 without its attempts > 0
ShouldRetry_any503(err, a) == err.status = Num(503)

\* line 18
ShouldRetry(err, a) == err.status = Num(503) /\ a > 0

\* what predictRisk has produced: nothing yet, a returned string, the undefined of
\* a function that falls off its end, or a thrown error
NoOut == [k |-> "pending", text |-> <<>>, status |-> Undef]
Returned(t) == [k |-> "return", text |-> t, status |-> Undef]
ReturnedUndefined == [k |-> "returnUndefined", text |-> <<>>, status |-> Undef]
Thrown(err) == [k |-> "throw", text |-> <<>>, status |-> err.status]

RiskBody(e, t, h) == [ecg |-> e, temperature |-> t, heartRate |-> h]
NoRiskBody == RiskBody(NotAnArray, Undef, Undef)
RiskBodies ==
  {RiskBody(e, t, h) : e \in {Arr(<<1>>), Arr(<<>>), NotAnArray},
                       t \in {Num(380), Num(0), Undef},
                       h \in {Num(90), Num(101), Num(0), Undef}}

\* aiController.js line 6: !ecg || !temperature || !heartRate
MissingRiskFields(b) ==
  \/ ~IsArray(b.ecg)
  \/ FalsyNum(b.temperature)
  \/ FalsyNum(b.heartRate)

NoRiskRes == [status |-> 0]

InitRisk ==
  /\ riskPc = "idle"
  /\ riskBody = NoRiskBody
  /\ attempts = 0
  /\ sent = <<>>
  /\ riskOut = NoOut
  /\ riskRes = NoRiskRes

\* the top of the loop of predictRisk: the next call is issued, or the function
\* falls off its end
LoopTop(a) ==
  /\ attempts' = WhileAttempts(a).attempts
  /\ IF WhileAttempts(a).enter
       THEN riskPc' = "send" /\ riskOut' = riskOut
       ELSE riskPc' = "returned" /\ riskOut' = ReturnedUndefined

\* aiController.js lines 4-11 and geminiService.js lines 7-15
RiskStart(b) ==
  /\ riskPc = "idle"
  /\ riskBody' = b
  /\ IF MissingRiskFields(b)
       THEN /\ riskPc' = "done"
            /\ riskRes' = [status |-> 400, error |-> "Missing required fields"]
            /\ UNCHANGED <<attempts, riskOut>>
       ELSE /\ LoopTop(InitialAttempts)
            /\ riskRes' = riskRes
  /\ UNCHANGED <<sent, iotVars, regVars>>

\* geminiService.js lines 15-24: the awaited call settles
SendMessageSettles(o) ==
  /\ riskPc = "send"
  /\ sent' = Append(sent, o)
  /\ IF o.k = "ok"
       THEN /\ riskOut' = Returned(trim(toLowerCase(o.text)))
            /\ riskPc' = "returned"
       ELSE IF ShouldRetry(o, attempts)
              THEN riskPc' = "wait" /\ riskOut' = riskOut
              ELSE riskPc' = "thrown" /\ riskOut' = Thrown(o)
  /\ UNCHANGED <<riskBody, attempts, riskRes, iotVars, regVars>>

\* geminiService.js lines 20-21 and 13: the 3-second timer fires, continue
RetryTimerFires ==
  /\ riskPc = "wait"
  /\ LoopTop(attempts)
  /\ UNCHANGED <<riskBody, sent, riskRes, iotVars, regVars>>

\* aiController.js lines 11-16
RiskRespond ==
  /\ riskPc \in {"returned", "thrown"}
  /\ riskPc' = "done"
  /\ riskRes' = IF riskPc = "returned"
                  THEN [status |-> 200, risk |-> riskOut.text,
                        riskDefined |-> riskOut.k = "return"]
                  ELSE [status |-> 500, error |-> "Gemini prediction failed"]
  /\ UNCHANGED <<riskBody, attempts, sent, riskOut, iotVars, regVars>>

NextRisk ==
  \/ \E b \in RiskBodies : RiskStart(b)
  \/ \E o \in Settlements : SendMessageSettles(o)
  \/ RetryTimerFires
  \/ RiskRespond

\* ------------------------------------------------------------ register
\* the two controllers that export register
Controllers == {"auth", "hospital"}

\* USER_ROLES, as the role strings
SUPER_ADMIN == "super_admin"
STAFF == "staff"
PATIENT == "patient"

RegBody(n, e, pw, r, h, dob, ed, ecn, ecp) ==
  [name |-> n, email |-> e, password |-> pw, role |-> r, hospitalId |-> h,
   dateOfBirth |-> dob, edd |-> ed, emergencyContactName |-> ecn,
   emergencyContactPhone |-> ecp]

NoRegBody ==
  RegBody(Undefined, Undefined, Undefined, Undefined, Undefined,
          Undefined, Undefined, Undefined, Undefined)

\* the patient details: all four present, or one of them missing
PatientDetails ==
  {<<"1990-01-01", "2026-01-01", "Kin", "0700">>,
   <<Undefined, "2026-01-01", "Kin", "0700">>,
   <<"1990-01-01", Undefined, "Kin", "0700">>,
   <<"1990-01-01", "2026-01-01", Undefined, "0700">>,
   <<"1990-01-01", "2026-01-01", "Kin", Undefined>>}

RegBodies ==
  {RegBody(n, e, pw, r, h, pd[1], pd[2], pd[3], pd[4]) :
     n \in {"Ann", Undefined}, e \in {"old@x", "new@x", Undefined},
     pw \in {"secret", "short", Undefined},
     r \in {PATIENT, STAFF, SUPER_ADMIN, Undefined},
     h \in {"H1", "H9", Undefined}, pd \in PatientDetails}

\* the hospitals and the accounts the database holds before the request
Hospitals == {"H1"}
ExistingUsers == {[_id |-> "u0", email |-> "old@x", role |-> STAFF, hospital |-> "H1"]}

\* lines 47 and 51
MissingRequired(b) ==
  ~Truthy(b.name) \/ ~Truthy(b.email) \/ ~Truthy(b.password) \/ ~Truthy(b.role)
PasswordTooShort(b) == Len(b.password) < 6

\* lines 82 / 268
MissingPatientDetails(b) ==
  \/ ~Truthy(b.dateOfBirth)
  \/ ~Truthy(b.edd)
  \/ ~Truthy(b.emergencyContactName)
  \/ ~Truthy(b.emergencyContactPhone)

\* the document User.create stores
NewUser(b) ==
  [_id |-> "u1", email |-> b.email, role |-> b.role,
   hospital |-> IF Truthy(b.hospitalId) THEN b.hospitalId ELSE "null"]

\* the step after the hospital lookup: auth.controller.js looks the email up
\* (line 67), hospital.controller.js goes straight to User.create (line 257)
AfterHospital(c) == IF c = "auth" THEN "findUser" ELSE "createUser"

\* lines 81-95: the step after User.create; "reject" is the 400 of line 83
AfterUserCreate(b) ==
  IF b.role = PATIENT
    THEN IF MissingPatientDetails(b) THEN "reject" ELSE "createPatient"
    ELSE "log"

InitRegister ==
  /\ regPc = "idle"
  /\ regCtl = "none"
  /\ regBody = NoRegBody
  /\ User = ExistingUsers
  /\ Patient = {}
  /\ regRes = NoRiskRes

\* next(new ErrorResponse(message, statusCode)), and next(err) of the catch block
RegisterEnds(status) ==
  /\ regPc' = "done"
  /\ regRes' = [status |-> status]

\* lines 33-61: the validation, up to the first awaited call
RegisterStart(c, b) ==
  /\ regPc = "idle"
  /\ regCtl' = c
  /\ regBody' = b
  /\ IF MissingRequired(b) THEN RegisterEnds(400)
     ELSE IF PasswordTooShort(b) THEN RegisterEnds(400)
     ELSE IF b.role # SUPER_ADMIN
       THEN IF ~Truthy(b.hospitalId) THEN RegisterEnds(400)
            ELSE regPc' = "findHospital" /\ regRes' = regRes
       ELSE regPc' = AfterHospital(c) /\ regRes' = regRes
  /\ UNCHANGED <<User, Patient, iotVars, riskVars>>

\* lines 61-64: Hospital.findById settles
HospitalFindById ==
  /\ regPc = "findHospital"
  /\ \/ /\ regBody.hospitalId \in Hospitals
        /\ regPc' = AfterHospital(regCtl) /\ regRes' = regRes
     \/ /\ regBody.hospitalId \notin Hospitals
        /\ RegisterEnds(404)
     \/ RegisterEnds(500)
  /\ UNCHANGED <<regCtl, regBody, User, Patient, iotVars, riskVars>>

\* auth.controller.js lines 67-70: User.findOne({ email }) settles
UserFindOne ==
  /\ regPc = "findUser"
  /\ \/ /\ \E u \in User : u.email = regBody.email
        /\ RegisterEnds(400)
     \/ /\ ~\E u \in User : u.email = regBody.email
        /\ regPc' = "createUser" /\ regRes' = regRes
     \/ RegisterEnds(500)
  /\ UNCHANGED <<regCtl, regBody, User, Patient, iotVars, riskVars>>

\* lines 72-84: User.create settles, then the patient details are tested
UserCreate ==
  /\ regPc = "createUser"
  /\ \/ /\ User' = User \cup {NewUser(regBody)}
        /\ IF AfterUserCreate(regBody) = "reject"
             THEN RegisterEnds(400)
             ELSE regPc' = AfterUserCreate(regBody) /\ regRes' = regRes
     \/ /\ User' = User
        /\ RegisterEnds(500)
  /\ UNCHANGED <<regCtl, regBody, Patient, iotVars, riskVars>>

\* lines 86-94: Patient.create settles
PatientCreate ==
  /\ regPc = "createPatient"
  /\ \/ /\ Patient' = Patient \cup {[user |-> "u1", hospital |-> regBody.hospitalId]}
        /\ regPc' = "log" /\ regRes' = regRes
     \/ /\ Patient' = Patient
        /\ RegisterEnds(500)
  /\ UNCHANGED <<regCtl, regBody, User, iotVars, riskVars>>

\* lines 97-105: logService.logActivity settles, then sendTokenResponse
LogActivity ==
  /\ regPc = "log"
  /\ \/ RegisterEnds(201)
     \/ RegisterEnds(500)
  /\ UNCHANGED <<regCtl, regBody, User, Patient, iotVars, riskVars>>

NextRegister ==
  \/ \E c \in Controllers, b \in RegBodies : RegisterStart(c, b)
  \/ HospitalFindById
  \/ UserFindOne
  \/ UserCreate
  \/ PatientCreate
  \/ LogActivity
NoBuzzer == [buzzer |-> "unset", reason |-> "unset", timestamp |-> 0]

Init ==
  /\ pc = [p \in Procs |-> "idle"]
  /\ body = [p \in Procs |-> NoBody]
  /\ timestamp = [p \in Procs |-> 0]
  /\ heartRate = [p \in Procs |-> 0]
  /\ alert = [p \in Procs |-> FALSE]
  /\ iot_data = [m \in MotherIds |-> EmptyNode]
  /\ alerts = [m \in MotherIds |-> EmptyNode]
  /\ buzzer_control = [d \in DeviceIds |-> NoBuzzer]
  /\ res = NoRes
  /\ httpStatus = [p \in Procs |-> 0]
  /\ InitRisk
  /\ InitRegister

PostRes(p, status) == [op |-> "postIotData", p |-> p, status |-> status]

\* lines 8-26: validation, timestamp, heart rate, alert; the sample write is issued
PostStart(p, b, r, now) ==
  /\ pc[p] = "idle"
  /\ body' = [body EXCEPT ![p] = b]
  /\ IF ~ValidInput(b)
       THEN /\ pc' = [pc EXCEPT ![p] = "done"]
            /\ res' = PostRes(p, 400)
            /\ httpStatus' = [httpStatus EXCEPT ![p] = 400]
            /\ UNCHANGED <<timestamp, heartRate, alert>>
       ELSE LET hr == calculateHeartRate(b.ecg.v, r)
            IN /\ timestamp' = [timestamp EXCEPT ![p] = DefaultTimestamp(b.timestamp, now)]
               /\ heartRate' = [heartRate EXCEPT ![p] = hr]
               /\ alert' = [alert EXCEPT ![p] = alertOf(b.temperature, hr)]
               /\ pc' = [pc EXCEPT ![p] = "sample"]
               /\ res' = NoRes
               /\ UNCHANGED httpStatus
  /\ UNCHANGED <<stores, riskVars, regVars>>

\* a rejected write that is answered with 500 while the handler goes on to the
\* actuator write
PostFail_keepsGoing(p) ==
  /\ pc' = [pc EXCEPT ![p] = "buzzer"]
  /\ res' = PostRes(p, 500)
  /\ httpStatus' = [httpStatus EXCEPT ![p] = 500]
  /\ UNCHANGED <<locals, stores, riskVars, regVars>>

\* a rejected write: the catch block answers 500
PostFail(p) ==
  /\ pc' = [pc EXCEPT ![p] = "done"]
  /\ res' = PostRes(p, 500)
  /\ httpStatus' = [httpStatus EXCEPT ![p] = 500]
  /\ UNCHANGED <<locals, stores, riskVars, regVars>>

\* lines 26-32
SampleWrite(p) ==
  /\ pc[p] = "sample"
  /\ \/ /\ iot_data' = [iot_data EXCEPT ![body[p].motherId] =
                          Put(@, NumberToString(timestamp[p]),
                              SampleRecord(body[p], heartRate[p], alert[p]))]
        /\ pc' = [pc EXCEPT ![p] = AfterSample(alert[p])]
        /\ res' = NoRes
        /\ UNCHANGED <<locals, alerts, buzzer_control, httpStatus, riskVars, regVars>>
     \/ PostFail(p)

\* lines 35-45
AlertWrite(p) ==
  /\ pc[p] = "alert"
  /\ \/ /\ alerts' = [alerts EXCEPT ![body[p].motherId] =
                        Put(@, NumberToString(timestamp[p]),
                            AlertRecord(body[p], heartRate[p], timestamp[p]))]
        /\ pc' = [pc EXCEPT ![p] = AfterAlert]
        /\ res' = NoRes
        /\ UNCHANGED <<locals, iot_data, buzzer_control, httpStatus, riskVars, regVars>>
     \/ PostFail(p)

\* lines 48-52
BuzzerWrite(p) ==
  /\ pc[p] = "buzzer"
  /\ \/ /\ buzzer_control' = [buzzer_control EXCEPT ![body[p].deviceId] =
                                BuzzerState(alert[p], timestamp[p])]
        /\ pc' = [pc EXCEPT ![p] = "respond"]
        /\ res' = NoRes
        /\ UNCHANGED <<locals, iot_data, alerts, httpStatus, riskVars, regVars>>
     \/ PostFail(p)

\* lines 54-58
PostRespond(p) ==
  /\ pc[p] = "respond"
  /\ pc' = [pc EXCEPT ![p] = "done"]
  /\ res' = [op |-> "postIotData", p |-> p, status |-> 200, body_status |-> "saved",
             alert |-> alert[p], heartRate |-> heartRate[p]]
  /\ httpStatus' = [httpStatus EXCEPT ![p] = 200]
  /\ UNCHANGED <<locals, stores, riskVars, regVars>>

\* ------------------------------------------------------------ the queries
QueryRes(op, motherId, status) == [op |-> op, motherId |-> motherId, status |-> status]

\* the test with every snapshot taken for empty
NoData_always(data) == TRUE

\* lines 78, 106, 137: !data, for the value of a snapshot
NoData(data) == DOMAIN data = {}

\* lines 83-85
latestTime(data) == Reverse(SortKeys(DOMAIN data))[1]

\* lines 110-115
sortedHistory(data) ==
  LET keys == SortKeys(DOMAIN data)
  IN [i \in 1..Len(keys) |-> [timestamp |-> keys[i], sample |-> data[keys[i]]]]

getLatestData(motherId) ==
  /\ LET data == iot_data[motherId]
     IN \/ /\ NoData(data)
           /\ res' = QueryRes("getLatestData", motherId, 404)
        \/ /\ ~NoData(data)
           /\ res' = [op |-> "getLatestData", motherId |-> motherId, status |-> 200,
                      sample |-> data[latestTime(data)], timestamp |-> latestTime(data)]
        \/ res' = QueryRes("getLatestData", motherId, 500)
  /\ UNCHANGED <<pc, locals, stores, httpStatus, riskVars, regVars>>

getMotherHistory(motherId) ==
  /\ LET data == iot_data[motherId]
     IN \/ /\ NoData(data)
           /\ res' = QueryRes("getMotherHistory", motherId, 404)
        \/ /\ ~NoData(data)
           /\ res' = [op |-> "getMotherHistory", motherId |-> motherId, status |-> 200,
                      history |-> sortedHistory(data)]
        \/ res' = QueryRes("getMotherHistory", motherId, 500)
  /\ UNCHANGED <<pc, locals, stores, httpStatus, riskVars, regVars>>

\* lines 142-145: {timestamp, ...entry}; the entry's own timestamp field (a number)
\* replaces the key
alertEntries(data) == {data[k] : k \in DOMAIN data}

\* the comparator of line 148 with its operands exchanged
sortAlerts_ascending(entries) ==
  LET RECURSIVE Asc(_)
      Asc(S) == IF S = {} THEN <<>>
                ELSE LET e == CHOOSE x \in S : \A y \in S : x.timestamp <= y.timestamp
                     IN <<e>> \o Asc(S \ {e})
  IN Asc(entries)

\* line 148: alerts.sort((a, b) => b.timestamp - a.timestamp)
sortAlerts(entries) ==
  LET RECURSIVE Desc(_)
      Desc(S) == IF S = {} THEN <<>>
                 ELSE LET e == CHOOSE x \in S : \A y \in S : x.timestamp >= y.timestamp
                      IN <<e>> \o Desc(S \ {e})
  IN Desc(entries)

\* the path getAlerts reads, and the path of the other two queries
alertsPath_iotData(motherId) == iot_data[motherId]

alertsPath(motherId) == alerts[motherId]

getAlerts(motherId) ==
  /\ LET data == alertsPath(motherId)
     IN \/ /\ NoData(data)
           /\ res' = QueryRes("getAlerts", motherId, 404)
        \/ /\ ~NoData(data)
           /\ res' = [op |-> "getAlerts", motherId |-> motherId, status |-> 200,
                      alerts |-> sortAlerts(alertEntries(data))]
        \/ res' = QueryRes("getAlerts", motherId, 500)
  /\ UNCHANGED <<pc, locals, stores, httpStatus, riskVars, regVars>>

Queries == \E m \in MotherIds : getLatestData(m) \/ getMotherHistory(m) \/ getAlerts(m)

Writes(p) == SampleWrite(p) \/ AlertWrite(p) \/ BuzzerWrite(p) \/ PostRespond(p)

\* two requests that run concurrently
Next ==
  \/ \E p \in Procs, b \in RaceBodies, r \in RandomDraws(RandomGrid), now \in NowValues :
        PostStart(p, b, r, now)
  \/ \E p \in Procs : Writes(p)
  \/ Queries

Spec == Init /\ [][Next]_vars

\* the event loop runs the continuation of every settled write: a request whose
\* next step is enabled is not left waiting for ever
FairBodies == {Body(d, "M1", Num(380), Arr(<<1>>), Num(9)) : d \in DeviceIds}

NextFair ==
  \/ \E p \in Procs, b \in FairBodies, r \in RandomDraws(RandomGrid), now \in NowValues :
        PostStart(p, b, r, now)
  \/ \E p \in Procs : Writes(p)
  \/ Queries

SpecFair == Init /\ [][NextFair]_vars /\ \A p \in Procs : WF_vars(Writes(p))

\* two requests over two subjects, each subject wearing its own device
FrameBodies ==
  {Body("D1", "M1", Num(380), Arr(<<1>>), ts) : ts \in {Num(9), Num(10)}} \cup
  {Body("D2", "M2", Num(380), Arr(<<1>>), ts) : ts \in {Num(9), Num(10)}}

NextFrame ==
  \/ \E p \in Procs, b \in FrameBodies, r \in RandomDraws(RandomGrid), now \in NowValues :
        PostStart(p, b, r, now)
  \/ \E p \in Procs : Writes(p)
  \/ Queries

SpecFrame == Init /\ [][NextFrame]_vars

\* one risk prediction; a pending call settles, the timer fires and
\* continuations run
SpecRisk == Init /\ [][NextRisk]_vars /\ WF_vars(NextRisk)

\* one registration, over every shape of body and both controllers
SpecRegister == Init /\ [][NextRegister]_vars

\* one request, over every shape of body
NextInputs ==
  \/ \E b \in Bodies, r \in RandomDraws(RandomGrid), now \in NowValues :
        PostStart("p1", b, r, now)
  \/ Writes("p1")
  \/ Queries

SpecInputs == Init /\ [][NextInputs]_vars

\* ------------------------------------------------------------ properties
InFlight == {"sample", "alert", "buzzer", "respond"}
KeyOfReq(p) == NumberToString(timestamp[p])
Answered(p, status) == res.op = "postIotData" /\ res.p = p /\ res.status = status
\* no other request names device d / writes under subject m at timestamp t
NoOtherIngestionFor(d, p) ==
  \A q \in Procs \ {p} : pc[q] = "idle" \/ body[q].deviceId # d
NoOtherIngestionAt(m, t, p) ==
  \A q \in Procs \ {p} : pc[q] = "idle" \/ body[q].motherId # m \/ timestamp[q] # t
StoresEmpty ==
  /\ \A m \in MotherIds : DOMAIN iot_data[m] = {} /\ DOMAIN alerts[m] = {}
  /\ \A d \in DeviceIds : buzzer_control[d] = NoBuzzer

C2_InvalidRejectedNoWrite ==
  [][\A p \in Procs :
       LET b == body'[p]
           invalid == \/ b.deviceId \in {"", Undefined}
                      \/ b.motherId \in {"", Undefined}
                      \/ b.temperature.k \notin {"fin", "nan", "pinf", "ninf"}
                      \/ b.ecg.k # "array"
       IN (pc[p] = "idle" /\ pc'[p] # "idle" /\ invalid) =>
            /\ res' = [op |-> "postIotData", p |-> p, status |-> 400]
            /\ pc'[p] = "done"
            /\ stores' = stores]_vars

C2_Witness ==
  \E p \in Procs :
    /\ Answered(p, 400)
    /\ body[p].deviceId = "D1"
    /\ body[p].motherId = "M1"
    /\ body[p].temperature = Num(380)
    /\ body[p].ecg = NotAnArray
    /\ StoresEmpty

\* C3: a request whose ecg is an empty array is answered with 400 and nothing is
\* persisted.
C3_EmptyEcgRejected ==
  \A p \in Procs :
    (pc[p] # "idle" /\ body[p].ecg = Arr(<<>>)) =>
      /\ pc[p] = "done"
      /\ res.op = "postIotData" => res.status = 400
      /\ StoresEmpty

\* C4: a request whose temperature is NaN, +Infinity or -Infinity is answered with
\* 400 and nothing is persisted.
C4_NonFiniteTemperatureRejected ==
  \A p \in Procs :
    (pc[p] # "idle" /\ body[p].temperature.k \in {"nan", "pinf", "ninf"}) =>
      /\ pc[p] = "done"
      /\ res.op = "postIotData" => res.status = 400
      /\ StoresEmpty

\* C5: once validation has passed the writes happen in the order sample store,
\* alert store (only if alert), actuator registry: a step of a request that writes
\* the alert store finds that request's sample key written, a step that writes the
\* actuator registry finds its sample key written and, when alert is true, its
\* alert key written, and no step writes two stores.
C5_WriteOrder ==
  [][\A p \in Procs :
       pc'[p] # pc[p] =>
         LET m == body[p].motherId
             sampleDone == pc[p] # "idle" /\ KeyOfReq(p) \in DOMAIN iot_data[m]
             alertDone == pc[p] # "idle" /\ KeyOfReq(p) \in DOMAIN alerts[m]
         IN /\ alerts' # alerts => (sampleDone /\ alert[p])
            /\ buzzer_control' # buzzer_control => (sampleDone /\ (alert[p] => alertDone))
            /\ pc'[p] = "respond" => (sampleDone /\ (alert[p] => alertDone))
            /\ iot_data' # iot_data => (alerts' = alerts /\ buzzer_control' = buzzer_control)
            /\ alerts' # alerts => buzzer_control' = buzzer_control]_vars

C5_Witness ==
  \E p \in Procs :
    /\ pc[p] = "respond"
    /\ alert[p]
    /\ KeyOfReq(p) \in DOMAIN iot_data[body[p].motherId]
    /\ KeyOfReq(p) \in DOMAIN alerts[body[p].motherId]
    /\ buzzer_control[body[p].deviceId].buzzer = "on"

AlertRecordExists(p) ==
  /\ KeyOfReq(p) \in DOMAIN alerts[body[p].motherId]
  /\ alerts[body[p].motherId][KeyOfReq(p)].reason = "ecg_and_temp_alert"

AlertRecordMatches(p) ==
  LET rec == alerts[body[p].motherId][KeyOfReq(p)]
  IN /\ rec.deviceId = body[p].deviceId
     /\ rec.temperature = body[p].temperature
     /\ rec.heartRate = heartRate[p]
     /\ rec.ecg = body[p].ecg.v

\* C6 as stated: when an ingestion with alert = true is answered with 200, an alert
\* record with reason "ecg_and_temp_alert" and that ingestion's deviceId,
\* temperature, heartRate and ecg is at alerts/s/t, the response carries
\* alert = true and, absent other ingestions for d, the buzzer of d is "on".
C6_AlertRecordOfIngestion ==
  \A p \in Procs :
    (Answered(p, 200) /\ alert[p]) =>
      /\ AlertRecordExists(p)
      /\ AlertRecordMatches(p)
      /\ res.alert = TRUE
      /\ NoOtherIngestionFor(body[p].deviceId, p) =>
           buzzer_control[body[p].deviceId].buzzer = "on"

\* C6 amended: as C6, but the record at alerts/s/t carries that ingestion's
\* deviceId, temperature, heartRate and ecg only absent other ingestions for the
\* same subject and timestamp (one of them may have overwritten the record).
C6_AlertRecordAbsentSameKey ==
  \A p \in Procs :
    (Answered(p, 200) /\ alert[p]) =>
      /\ AlertRecordExists(p)
      /\ NoOtherIngestionAt(body[p].motherId, timestamp[p], p) => AlertRecordMatches(p)
      /\ res.alert = TRUE
      /\ NoOtherIngestionFor(body[p].deviceId, p) =>
           buzzer_control[body[p].deviceId].buzzer = "on"

C6_Witness ==
  \E p \in Procs :
    /\ Answered(p, 200)
    /\ alert[p]
    /\ \A q \in Procs \ {p} : pc[q] = "done" /\ timestamp[q] # timestamp[p]
                              /\ body[q].deviceId # body[p].deviceId
    /\ AlertRecordMatches(p)
    /\ buzzer_control[body[p].deviceId].buzzer = "on"

\* C7: an ingestion with alert = false writes nothing to the alert store, and when
\* it is answered with 200 then, absent other ingestions for d, buzzer_control/d
\* has buzzer = "off" and reason = "normal".
C7_NoAlertNoRecord ==
  [][\A p \in Procs :
       /\ (pc'[p] # pc[p] /\ ~alert'[p]) => alerts' = alerts
       /\ (Answered(p, 200)' /\ ~alert'[p] /\ NoOtherIngestionFor(body[p].deviceId, p)') =>
            /\ buzzer_control'[body[p].deviceId].buzzer = "off"
            /\ buzzer_control'[body[p].deviceId].reason = "normal"]_vars

C7_Witness ==
  \E p \in Procs :
    /\ Answered(p, 200)
    /\ ~alert[p]
    /\ res.alert = FALSE
    /\ NoOtherIngestionFor(body[p].deviceId, p)
    /\ \E q \in Procs \ {p} : pc[q] = "done"
    /\ DOMAIN alerts[body[p].motherId] = {}
    /\ buzzer_control[body[p].deviceId].buzzer = "off"

\* C8: a timestamp the caller supplies, 0 included, is the key of the stored sample
\* and of the alert record and the timestamp of the actuator state.
C8_SuppliedTimestampKept ==
  \A p \in Procs :
    (pc[p] \in InFlight /\ body[p].timestamp.k = "fin") =>
      /\ timestamp[p] = body[p].timestamp.v
      /\ pc[p] \in {"alert", "buzzer", "respond"} =>
           NumberToString(body[p].timestamp.v) \in DOMAIN iot_data[body[p].motherId]
      /\ pc[p] = "respond" =>
           buzzer_control[body[p].deviceId].timestamp = body[p].timestamp.v

MaxOf(S) == CHOOSE x \in S : \A y \in S : y <= x

\* C9: getLatestData answers with the sample whose timestamp is numerically the
\* greatest of the subject's stored timestamps.
C9_LatestIsNumericMax ==
  (res.op = "getLatestData" /\ res.status = 200) =>
    LET data == iot_data[res.motherId]
    IN /\ res.timestamp \in DOMAIN data
       /\ res.sample = data[res.timestamp]
       /\ ToNumber(res.timestamp) = MaxOf({ToNumber(k) : k \in DOMAIN data})

\* C10: getMotherHistory answers with every stored sample of the subject exactly
\* once, in numerically non-decreasing order of timestamp.
C10_HistoryNumericAscending ==
  (res.op = "getMotherHistory" /\ res.status = 200) =>
    LET data == iot_data[res.motherId]
        h == res.history
    IN /\ Len(h) = Cardinality(DOMAIN data)
       /\ {h[i].timestamp : i \in 1..Len(h)} = DOMAIN data
       /\ \A i \in 1..Len(h) : h[i].sample = data[h[i].timestamp]
       /\ \A i, j \in 1..Len(h) :
            i < j => ToNumber(h[i].timestamp) <= ToNumber(h[j].timestamp)

NewestIngestion(p) ==
  \A q \in Procs \ {p} :
    pc[q] = "idle" \/ body[q].motherId # body[p].motherId \/ timestamp[q] < timestamp[p]

\* C12: after an ingestion for subject s (the newest for s) is answered with 200, a
\* following getLatestData(s) returns a record whose temperature, ecg, heartRate and
\* alert are the values that ingestion computed.
C12_RoundTrip ==
  (res.op = "getLatestData" /\ res.status = 200) =>
    \A p \in Procs :
      (httpStatus[p] = 200 /\ body[p].motherId = res.motherId /\ NewestIngestion(p)) =>
        /\ res.sample.temperature = body[p].temperature
        /\ res.sample.ecg = body[p].ecg.v
        /\ res.sample.heartRate = heartRate[p]
        /\ res.sample.alert = alert[p]

\* ------------------------------------------------------------ re-ingestion
\* one payload, sent twice
ReingestBodies ==
  {Body("D1", "M1", Num(380), Arr(<<1>>), ts) : ts \in {Num(0), Num(10)}}

NextReingest ==
  \/ \E p \in Procs, b \in ReingestBodies, r \in RandomDraws(RandomGrid), now \in NowValues :
        /\ \A q \in Procs \ {p} : pc[q] = "idle" \/ body[q] = b
        /\ PostStart(p, b, r, now)
  \/ \E p \in Procs : Writes(p)
  \/ Queries

SpecReingest == Init /\ [][NextReingest]_vars

SampleWritten(p) == pc[p] \in {"alert", "buzzer", "respond"} \/ httpStatus[p] = 200

\* C13: re-ingesting a payload with the same subject and the same explicit timestamp
\* overwrites the stored sample: the store holds one sample for that
\* (subject, timestamp) and getMotherHistory returns as many samples as before.
C13_ReingestOverwrites ==
  \A p, q \in Procs :
    (/\ p # q
     /\ SampleWritten(p) /\ SampleWritten(q)
     /\ body[p].motherId = body[q].motherId
     /\ body[p].timestamp.k = "fin"
     /\ body[p].timestamp = body[q].timestamp) =>
       /\ Cardinality(DOMAIN iot_data[body[p].motherId]) = 1
       /\ (res.op = "getMotherHistory" /\ res.status = 200
             /\ res.motherId = body[p].motherId) => Len(res.history) = 1

\* request p got past validation and computed its heart rate
Computed(p) == pc[p] # "idle" /\ httpStatus[p] # 400

\* C14: heart-rate estimation is deterministic: two ingestions with the same ecg
\* compute the same heartRate, and two ingestions of the same payload the same alert.
C14_HeartRateDeterministic ==
  \A p, q \in Procs :
    (Computed(p) /\ Computed(q) /\ body[p].ecg = body[q].ecg) =>
      /\ heartRate[p] = heartRate[q]
      /\ body[p] = body[q] => alert[p] = alert[q]

\* C15: for an empty ecg, or one too short to hold two peaks, no heart rate is
\* returned: the ingestion ends as a failure (not 200) and persists nothing.
C15_NoHeartRateWithoutSignal ==
  \A p \in Procs :
    (pc[p] # "idle" /\ body[p].ecg.k = "array" /\ Len(body[p].ecg.v) < 2) =>
      /\ pc[p] = "done"
      /\ httpStatus[p] \in {400, 500}
      /\ heartRate[p] = 0
      /\ StoresEmpty

\* ------------------------------------------------------------ the stub's range
HeartRateBodies ==
  {Body("D1", "M1", t, Arr(e), Num(10)) : t \in {Num(375), Num(380)}, e \in EcgArrays}

\* one request, Math.random() on the fine grid
NextHeartRate ==
  \/ \E b \in HeartRateBodies, r \in RandomDraws(FineGrid), now \in NowValues :
        PostStart("p1", b, r, now)
  \/ Writes("p1")
  \/ Queries

SpecHeartRate == Init /\ [][NextHeartRate]_vars

C17_NotFoundIffNoData ==
  /\ res.op \in {"getLatestData", "getMotherHistory"} =>
       /\ res.status \in {200, 404, 500}
       /\ res.status = 404 => DOMAIN iot_data[res.motherId] = {}
       /\ res.status = 200 => DOMAIN iot_data[res.motherId] # {}
  /\ res.op = "getAlerts" =>
       /\ res.status \in {200, 404, 500}
       /\ res.status = 404 => DOMAIN alerts[res.motherId] = {}
       /\ res.status = 200 => DOMAIN alerts[res.motherId] # {}

C17_Witness ==
  /\ res.op = "getAlerts"
  /\ res.status = 404
  /\ DOMAIN alerts[res.motherId] = {}
  /\ Cardinality(DOMAIN iot_data[res.motherId]) = 2

\* C18: when two ingestions for one subject with distinct timestamps have both been
\* answered with 200, both samples are in iot_data for that subject, and
\* getLatestData returns the sample of the larger timestamp.
C18_RacingSamplesBothKept ==
  \A p, q \in Procs :
    (/\ p # q
     /\ httpStatus[p] = 200 /\ httpStatus[q] = 200
     /\ body[p].motherId = body[q].motherId
     /\ timestamp[p] > timestamp[q]) =>
       LET m == body[p].motherId
       IN /\ KeyOfReq(p) \in DOMAIN iot_data[m]
          /\ KeyOfReq(q) \in DOMAIN iot_data[m]
          /\ (res.op = "getLatestData" /\ res.status = 200 /\ res.motherId = m) =>
               /\ ToNumber(res.timestamp) = timestamp[p]
               /\ res.sample = SampleRecord(body[p], heartRate[p], alert[p])

\* C19 as stated: once iot_data/s/t holds a sample, every later state holds the same
\* sample at that key.
C19_SampleNeverMutated ==
  [][\A m \in MotherIds : \A k \in DOMAIN iot_data[m] :
       /\ k \in DOMAIN iot_data'[m]
       /\ iot_data'[m][k] = iot_data[m][k]]_vars

\* C19 amended: a stored sample is never deleted, and the only step that changes
\* the sample at iot_data/s/t is the sample write of an ingestion for the same
\* subject s and timestamp t, which replaces it by that ingestion's sample.
C19_SampleChangedOnlyAtOwnKey ==
  [][\A m \in MotherIds : \A k \in DOMAIN iot_data[m] :
       /\ k \in DOMAIN iot_data'[m]
       /\ iot_data'[m][k] # iot_data[m][k] =>
            \E p \in Procs :
              /\ pc[p] = "sample" /\ pc'[p] # "sample"
              /\ body[p].motherId = m
              /\ KeyOfReq(p) = k
              /\ iot_data'[m][k] = [deviceId |-> body[p].deviceId,
                                    temperature |-> body[p].temperature,
                                    heartRate |-> heartRate[p],
                                    ecg |-> body[p].ecg.v,
                                    alert |-> alert[p]]]_vars

C19_Witness ==
  \E p, q \in Procs :
    /\ p # q
    /\ SampleWritten(p) /\ SampleWritten(q)
    /\ body[p].motherId = body[q].motherId
    /\ timestamp[p] = timestamp[q]
    /\ heartRate[p] # heartRate[q]
    /\ iot_data[body[p].motherId][KeyOfReq(p)].heartRate = heartRate[q]

\* C20: no operation deletes an entry: the key sets of the sample store and of the
\* alert store only grow.
C20_KeysOnlyGrow ==
  [][\A m \in MotherIds :
       /\ DOMAIN iot_data[m] \subseteq DOMAIN iot_data'[m]
       /\ DOMAIN alerts[m] \subseteq DOMAIN alerts'[m]]_vars

C20_Witness ==
  /\ Cardinality(DOMAIN iot_data["M1"]) = 2
  /\ Cardinality(DOMAIN alerts["M1"]) = 2
  /\ \A p \in Procs : httpStatus[p] = 200

\* C21: every record of the alert store has temperature > 37.5 and a heartRate
\* below 60 or above 100, and carries reason "ecg_and_temp_alert".
C21_AlertRecordsAlerting ==
  \A m \in MotherIds : \A k \in DOMAIN alerts[m] :
    LET rec == alerts[m][k]
    IN /\ rec.temperature.k = "pinf" \/ (rec.temperature.k = "fin" /\ rec.temperature.v > 375)
       /\ rec.heartRate < 60 \/ rec.heartRate > 100
       /\ rec.reason = "ecg_and_temp_alert"

C21_Witness ==
  /\ <<1, 0>> \in DOMAIN alerts["M1"]
  /\ alerts["M1"][<<1, 0>>].temperature = Num(376)
  /\ alerts["M1"][<<1, 0>>].heartRate = 101
  /\ httpStatus["p1"] = 200

\* C22: when no ingestion is in flight, every alert record at alerts/s/t has a
\* sample at iot_data/s/t with alert = true and the same deviceId, temperature,
\* heartRate and ecg, and every sample with alert = true at iot_data/s/t has an
\* alert record at alerts/s/t, also after re-ingestions and races at one key.
C22_AlertStoreIsIndex ==
  (\A p \in Procs : pc[p] \notin InFlight) =>
    \A m \in MotherIds :
      /\ \A k \in DOMAIN alerts[m] :
           /\ k \in DOMAIN iot_data[m]
           /\ iot_data[m][k].alert = TRUE
           /\ iot_data[m][k].deviceId = alerts[m][k].deviceId
           /\ iot_data[m][k].temperature = alerts[m][k].temperature
           /\ iot_data[m][k].heartRate = alerts[m][k].heartRate
           /\ iot_data[m][k].ecg = alerts[m][k].ecg
      /\ \A k \in DOMAIN iot_data[m] :
           iot_data[m][k].alert = TRUE => k \in DOMAIN alerts[m]

\* C23: the actuator state of a device is never torn: a written buzzer_control/d
\* equals the full state (buzzer, reason, timestamp) written by one single
\* ingestion for d, with buzzer "on" exactly when reason is "ecg_and_temp_alert"
\* and "off" exactly when reason is "normal", under every interleaving.
C23_ActuatorNeverTorn ==
  \A d \in DeviceIds :
    LET st == buzzer_control[d]
    IN /\ st.buzzer = "on" <=> st.reason = "ecg_and_temp_alert"
       /\ st.buzzer = "off" <=> st.reason = "normal"
       /\ st # NoBuzzer =>
            \E p \in Procs :
              /\ pc[p] \in {"respond", "done"}
              /\ body[p].deviceId = d
              /\ st.buzzer = (IF alert[p] THEN "on" ELSE "off")
              /\ st.reason = (IF alert[p] THEN "ecg_and_temp_alert" ELSE "normal")
              /\ st.timestamp = timestamp[p]

C23_Witness ==
  /\ \A p \in Procs : httpStatus[p] = 200 /\ body[p].deviceId = "D1"
  /\ alert["p1"] /\ ~alert["p2"]
  /\ timestamp["p1"] # timestamp["p2"]
  /\ buzzer_control["D1"] = [buzzer |-> "on", reason |-> "ecg_and_temp_alert",
                             timestamp |-> timestamp["p1"]]

\* C24: a store-write failure aborts the rest of the ingestion without rolling
\* back: when the sample write fails no alert record and no actuator state are
\* written; when the alert write fails after the sample write succeeded the sample
\* stays persisted, the alert record is absent and the actuator registry is not
\* written; in each case the response is 500 (one request, no other writer).
C24_FailureAborts ==
  [][LET p == "p1"
         m == body[p].motherId
         d == body[p].deviceId
         k == KeyOfReq(p)
     IN /\ (pc[p] = "sample" /\ pc'[p] # "sample" /\ iot_data' = iot_data) =>
             /\ res' = [op |-> "postIotData", p |-> p, status |-> 500]
             /\ httpStatus'[p] = 500
             /\ pc'[p] = "done"
             /\ k \notin DOMAIN iot_data'[m]
             /\ k \notin DOMAIN alerts'[m]
             /\ buzzer_control'[d] = NoBuzzer
        /\ (pc[p] = "alert" /\ pc'[p] # "alert" /\ alerts' = alerts) =>
             /\ res' = [op |-> "postIotData", p |-> p, status |-> 500]
             /\ httpStatus'[p] = 500
             /\ pc'[p] = "done"
             /\ k \in DOMAIN iot_data'[m]
             /\ iot_data'[m][k] = [deviceId |-> d, temperature |-> body[p].temperature,
                                   heartRate |-> heartRate[p], ecg |-> body[p].ecg.v,
                                   alert |-> TRUE]
             /\ k \notin DOMAIN alerts'[m]
             /\ buzzer_control'[d] = NoBuzzer
        /\ httpStatus[p] = 500 =>
             /\ iot_data' = iot_data /\ alerts' = alerts /\ buzzer_control' = buzzer_control
             /\ httpStatus'[p] = 500]_vars

C24_Witness ==
  /\ httpStatus["p1"] = 500
  /\ res.op = "getLatestData" /\ res.status = 200 /\ res.sample.alert = TRUE
  /\ DOMAIN iot_data["M1"] = {KeyOfReq("p1")}
  /\ DOMAIN alerts["M1"] = {}
  /\ buzzer_control["D1"] = NoBuzzer

\* C25: postIotData answers 200 with status "saved" only after the sample write,
\* the alert write (when alert is true) and the actuator write of that request
\* have all succeeded; each request produces exactly one response, which is one of
\* 200, 400 or 500: a started request is answered, and an answered request is
\* never answered again.
C25_OneResponseAfterWrites ==
  /\ [][\A p \in Procs :
          LET m == body[p].motherId
              d == body[p].deviceId
          IN /\ httpStatus'[p] # httpStatus[p] =>
                  /\ httpStatus[p] = 0
                  /\ httpStatus'[p] \in {200, 400, 500}
                  /\ res'.op = "postIotData" /\ res'.p = p /\ res'.status = httpStatus'[p]
             /\ (res'.op = "postIotData" /\ res'.p = p) =>
                  /\ httpStatus[p] = 0
                  /\ httpStatus'[p] = res'.status
             /\ (httpStatus[p] = 0 /\ httpStatus'[p] = 200) =>
                  /\ pc[p] = "respond"
                  /\ res'.body_status = "saved"
                  /\ KeyOfReq(p) \in DOMAIN iot_data[m]
                  /\ alert[p] => KeyOfReq(p) \in DOMAIN alerts[m]
                  /\ buzzer_control[d] # NoBuzzer
             /\ (pc'[p] = "done") <=> (httpStatus'[p] # 0)]_vars
  /\ \A p \in Procs : (pc[p] # "idle") ~> (httpStatus[p] \in {200, 400, 500})

C25_Witness ==
  /\ res.op = "postIotData" /\ res.status = 200 /\ res.alert = TRUE
  /\ httpStatus[res.p] = 200
  /\ \E q \in Procs : httpStatus[q] = 500 /\ body[q].deviceId # body[res.p].deviceId
  /\ buzzer_control[body[res.p].deviceId].buzzer = "on"

\* the samples device d produced, as <<timestamp, alert>>
SamplesOf(d) ==
  UNION {{<<ToNumber(k), iot_data[m][k].alert>> :
            k \in {x \in DOMAIN iot_data[m] : iot_data[m][x].deviceId = d}} :
         m \in MotherIds}

\* C26: once all ingestions for device d have completed, buzzer_control/d.buzzer
\* is "on" exactly when the sample with the greatest timestamp produced by d has
\* alert = true, whatever the order in which the ingestions arrived or completed.
C26_ActuatorReflectsNewest ==
  \A d \in DeviceIds :
    (/\ \A p \in Procs : pc[p] \in InFlight => body[p].deviceId # d
     /\ SamplesOf(d) # {}) =>
       LET newest == CHOOSE s \in SamplesOf(d) : \A o \in SamplesOf(d) : o[1] <= s[1]
       IN (buzzer_control[d].buzzer = "on") <=> (newest[2] = TRUE)

\* C27: an ingestion for subject s, device d and timestamp t changes at most the
\* entries iot_data/s/t, alerts/s/t and buzzer_control/d; the samples and alert
\* records of every other subject and of every other timestamp of s, and the
\* actuator state of every other device, are unchanged; the three queries change
\* nothing.
C27_Frame ==
  [][/\ (\A p \in Procs : pc'[p] = pc[p]) =>
          (iot_data' = iot_data /\ alerts' = alerts /\ buzzer_control' = buzzer_control)
     /\ \A p \in Procs :
          pc'[p] # pc[p] =>
            LET s == body'[p].motherId
                d == body'[p].deviceId
                t == NumberToString(timestamp'[p])
            IN /\ \A m \in MotherIds :
                    \A k \in DOMAIN iot_data[m] \cup DOMAIN iot_data'[m] :
                      (m # s \/ k # t) =>
                        /\ k \in DOMAIN iot_data[m] /\ k \in DOMAIN iot_data'[m]
                        /\ iot_data'[m][k] = iot_data[m][k]
               /\ \A m \in MotherIds :
                    \A k \in DOMAIN alerts[m] \cup DOMAIN alerts'[m] :
                      (m # s \/ k # t) =>
                        /\ k \in DOMAIN alerts[m] /\ k \in DOMAIN alerts'[m]
                        /\ alerts'[m][k] = alerts[m][k]
               /\ \A e \in DeviceIds \ {d} : buzzer_control'[e] = buzzer_control[e]]_vars

C27_Witness ==
  /\ httpStatus["p1"] = 200 /\ httpStatus["p2"] = 200
  /\ alert["p1"] /\ alert["p2"]
  /\ body["p1"].motherId = "M1" /\ body["p2"].motherId = "M2"
  /\ DOMAIN iot_data["M1"] = {KeyOfReq("p1")} /\ DOMAIN iot_data["M2"] = {KeyOfReq("p2")}
  /\ DOMAIN alerts["M1"] = {KeyOfReq("p1")} /\ DOMAIN alerts["M2"] = {KeyOfReq("p2")}
  /\ buzzer_control["D1"].timestamp = timestamp["p1"]
  /\ buzzer_control["D2"].timestamp = timestamp["p2"]
  /\ res.op = "getAlerts" /\ res.status = 200

\* C28: every stored sample is self-consistent: its alert field equals
\* (temperature > 37.5 and (heartRate < 60 or heartRate > 100)) on the temperature
\* and heartRate stored in that sample, and the heart rate of the decision, the
\* sample, the alert record and the response is one value.
C28_SampleSelfConsistent ==
  /\ \A m \in MotherIds : \A k \in DOMAIN iot_data[m] :
       LET smp == iot_data[m][k]
           hot == smp.temperature.k = "pinf" \/
                  (smp.temperature.k = "fin" /\ smp.temperature.v > 375)
       IN /\ smp.alert <=> (hot /\ (smp.heartRate < 60 \/ smp.heartRate > 100))
          /\ k \in DOMAIN alerts[m] => alerts[m][k].heartRate = smp.heartRate
  /\ (res.op = "postIotData" /\ res.status = 200) =>
       LET smp == iot_data[body[res.p].motherId][KeyOfReq(res.p)]
       IN /\ res.heartRate = smp.heartRate
          /\ res.alert = smp.alert

C28_Witness ==
  /\ res.op = "postIotData" /\ res.status = 200 /\ res.alert = FALSE /\ res.heartRate = 101
  /\ iot_data["M1"][KeyOfReq("p1")].temperature = Num(375)
  /\ iot_data["M1"][KeyOfReq("p1")].heartRate = 101

Last(s) == s[Len(s)]
EarlierAllOverloaded == \A i \in 1..(Len(sent) - 1) : sent[i] = Rejected(Num(503))

\* C29: predictRisk always terminates after at most 3 calls of sendMessage: it
\* returns the text (lower-cased and trimmed, as line 16 returns it) of the first
\* successful call; it retries, after the wait, only when a call fails with status
\* 503 and attempts remain; a failure with any other status is thrown at once; a
\* 503 failure on the third attempt is thrown; it never returns undefined.
C29_PredictRiskBounded ==
  /\ [](/\ Len(sent) <= 3
        /\ riskOut.k # "returnUndefined"
        /\ riskPc \in {"send", "wait"} => riskOut.k = "pending"
        /\ riskPc = "send" => (Len(sent) < 3 /\ \A i \in 1..Len(sent) : sent[i] = Rejected(Num(503)))
        /\ riskPc = "wait" => (Len(sent) \in 1..2 /\ Last(sent) = Rejected(Num(503)))
        /\ sent # <<>> =>
             /\ EarlierAllOverloaded
             /\ Last(sent).k = "ok" =>
                  /\ riskOut.k = "return"
                  /\ riskOut.text = trim(toLowerCase(Last(sent).text))
             /\ (Last(sent).k = "err" /\ Last(sent).status # Num(503)) =>
                  /\ riskOut.k = "throw"
                  /\ riskOut.status = Last(sent).status
             /\ (Last(sent) = Rejected(Num(503)) /\ Len(sent) = 3) =>
                  /\ riskOut.k = "throw"
                  /\ riskOut.status = Num(503)
             /\ (Last(sent) = Rejected(Num(503)) /\ Len(sent) < 3) =>
                  /\ riskOut.k = "pending"
                  /\ riskPc \in {"wait", "send"})
  /\ (riskPc = "send") ~> (riskOut.k \in {"return", "throw"})

C29_Witness ==
  /\ riskPc = "done"
  /\ Len(sent) = 3
  /\ sent[3] = Resolved(<<" ", "L", "o", "w", " ">>)
  /\ riskRes.status = 200
  /\ riskRes.risk = <<"l", "o", "w">>

\* C30: registration leaves no partial state on rejection: whenever register ends
\* with an error response (for instance 400 because the role is patient and
\* dateOfBirth, edd, emergencyContactName or emergencyContactPhone is missing), no
\* User account has been created by that request; a User exists after register
\* only if the request succeeded with 201.
C30_NoUserOnRejection ==
  (regPc = "done" /\ regRes.status # 201) =>
    /\ User = ExistingUsers
    /\ ~\E u \in User : u._id = "u1"

====
